---- MODULE Spec2Model ----
(***************************************************************************)
(* Interview Practice Agent: the orchestrator (app/interview_agent.py),    *)
(* the console hesitation loop and the HTTP session registry (app/main.py).*)
(* Text is a sequence of one-character strings, so that strip(), lower()   *)
(* and len() are computed as Python computes them.                         *)
(***************************************************************************)
EXTENDS Integers, Sequences, FiniteSets, TLC

\* ------------------------------------------------------------------ bounds
MaxBudget == 2
MaxTurns == 6
MaxUtteranceLen == 4

\* ------------------------------------------------------- text primitives
WHITESPACE == {" ", "\t", "\n"}

UPPER == <<"A","B","C","D","E","F","G","H","I","J","K","L","M","N","O","P","Q","R","S","T","U","V","W","X","Y","Z">>
LOWERCASE == <<"a","b","c","d","e","f","g","h","i","j","k","l","m","n","o","p","q","r","s","t","u","v","w","x","y","z">>
DIGITS == {"0","1","2","3","4","5","6","7","8","9"}
ALNUM == {UPPER[i] : i \in 1..26} \cup {LOWERCASE[i] : i \in 1..26} \cup DIGITS

RECURSIVE lstrip(_)
lstrip(s) == IF Len(s) > 0 /\ Head(s) \in WHITESPACE THEN lstrip(Tail(s)) ELSE s

RECURSIVE rstrip(_)
rstrip(s) == IF Len(s) > 0 /\ s[Len(s)] \in WHITESPACE THEN rstrip(SubSeq(s, 1, Len(s) - 1)) ELSE s

strip(s) == rstrip(lstrip(s))

lowerChar(c) == IF \E i \in 1..26 : UPPER[i] = c THEN LOWERCASE[CHOOSE i \in 1..26 : UPPER[i] = c] ELSE c

lower(s) == [i \in 1..Len(s) |-> lowerChar(s[i])]

\* ------------------------------------------------------- fixed sentences
FIRST_QUESTION == <<"C","a","n"," ","y","o","u"," ","i","n","t","r","o","d","u","c","e"," ","y","o","u","r","s","e","l","f","?">>
START_DIRECTIVE == <<"S","t","a","r","t"," ","t","h","e"," ","i","n","t","e","r","v","i","e","w"," ","a","n","d"," ","a","s","k"," ","t","h","e"," ","f","i","r","s","t"," ","q","u","e","s","t","i","o","n",".">>
NONE == <<"N","O","N","E">>
SKIP_MARKER == <<"N","o"," ","r","e","s","p","o","n","s","e"," ","/"," ","s","k","i","p","p","e","d">>
SKIP_MSG == <<"N","o"," ","w","o","r","r","i","e","s",","," ","l","e","t","'","s"," ","m","o","v","e"," ","t","o"," ","t","h","e"," ","n","e","x","t"," ","q","u","e","s","t","i","o","n",".">>
REPEAT_PREFIX == <<"N","o"," ","p","r","o","b","l","e","m",","," ","l","e","t"," ","m","e"," ","r","e","p","e","a","t"," ","t","h","e"," ","q","u","e","s","t","i","o","n"," ","s","o"," ","y","o","u"," ","c","a","n"," ","a","n","s","w","e","r"," ","c","o","m","f","o","r","t","a","b","l","y",":","\n">>
ELABORATE == <<"C","a","n"," ","y","o","u"," ","e","l","a","b","o","r","a","t","e","?">>
\* the character U+2014 of the fallback sentence, written in ASCII
EM_DASH == "--"
TIMEOUT_FALLBACK == <<"A","r","e"," ","y","o","u"," ","s","t","i","l","l"," ","t","h","e","r","e","?"," ","T","a","k","e"," ","y","o","u","r"," ","t","i","m","e"," ",EM_DASH," ","w","o","u","l","d"," ","y","o","u"," ","l","i","k","e"," ","m","e"," ","t","o"," ","r","e","p","e","a","t"," ","t","h","e"," ","q","u","e","s","t","i","o","n","?">>

HESITATION_PHRASES == {
    <<>>, <<" ">>, <<".",".",".">>, <<".">>, <<".",".">>,
    <<"u","h">>, <<"u","h","h">>, <<"u","m">>, <<"u","m","m">>, <<"h","m","m">>, <<"h","u","h">>, <<"m","m">>,
    <<"i","d","k">>, <<"i"," ","d","o","n","'","t"," ","k","n","o","w">>,
    <<"i"," ","d","o","n","t"," ","k","n","o","w">>, <<"d","o","n","t"," ","k","n","o","w">>,
    <<"n","o"," ","i","d","e","a">>,
    <<"n","o">>, <<"n","a","h">>, <<"n","o","p","e">>, <<"s","k","i","p">>, <<"n","e","x","t">>, <<"n","o","n","e">>}
POSITIVE_SHORTS == {<<"y","e","s">>, <<"y">>, <<"o","k">>, <<"o","k","a","y">>, <<"s","u","r","e">>, <<"f","i","n","e">>, <<"g","o","o","d">>}
EXIT_WORDS == {<<"e","x","i","t">>, <<"q","u","i","t">>, <<"s","t","o","p">>}

\* ----------------------------------------------------------- input sets
SoftwareEngineer == <<"S","o","f","t","w","a","r","e"," ","E","n","g","i","n","e","e","r">>
BackendEngineer == <<"B","a","c","k","e","n","d"," ","E","n","g","i","n","e","e","r">>
Roles == {SoftwareEngineer, BackendEngineer}

\* StartRequest.max_questions is an unvalidated int
Budgets == 0..MaxBudget

\* raw message contents the generation service may return, before strip()
RawReplies == {FIRST_QUESTION, NONE, <<"W","h","y","?","\n">>, <<" ">>}

\* AnswerRequest.answer is any string
Answers == {<<>>, <<"R","u","s","t">>}

SessionIds == {"u1"}

\* session ids a request may carry: the issued ones and one that start never returns
RequestIds == SessionIds \cup {"zz"}

\* lines typed at the console prompt
Utterances == {<<>>, <<"U","m"," ">>, <<"n">>, <<"?","!">>, <<"O","K"," ">>, <<" ","R","u","s","t">>, <<"E","x","i","t">>}

\* characters of the lines given to the classifier
Alphabet == {" ", "n", "o", "k", "O", "?"}
Lines == UNION {[1..n -> Alphabet] : n \in 0..MaxUtteranceLen}

\* ------------------------------------------------------- optional values
None == [some |-> FALSE, val |-> <<>>]
Some(v) == [some |-> TRUE, val |-> v]

\* ------------------------------------------------------------- the gateway
\* outcome of one client.chat.completions.create call: an exception or a content
GatewayFailure == [ok |-> FALSE, content |-> <<>>]
GatewaySentinel == [ok |-> TRUE, content |-> NONE]
GatewayOutcomes == {GatewayFailure} \cup {[ok |-> TRUE, content |-> c] : c \in RawReplies}

chat_with_groq(g) == [raised |-> ~g.ok, value |-> IF g.ok THEN strip(g.content) ELSE <<>>]

interviewer_agent(state, history, g) == chat_with_groq(g)

followup_agent(last_question, last_answer, previous_questions, g) ==
    LET r == chat_with_groq(g) IN [raised |-> r.raised, value |-> strip(r.value)]

feedback_agent(state, g) ==
    LET r == chat_with_groq(g) IN [raised |-> r.raised, value |-> strip(r.value)]

\* ------------------------------------------------------------ the state
InterviewState(role, max_questions) ==
    [role |-> role, max_questions |-> max_questions, main_questions_asked |-> 0, qa_pairs |-> <<>>]

Turn(r, c) == [role |-> r, content |-> c]

AppendQA_front(qa_pairs, q) == <<[question |-> q, answer |-> <<>>]>> \o qa_pairs

\* state.qa_pairs.append({"question": q, "answer": ""})
AppendQA(qa_pairs, q) == Append(qa_pairs, [question |-> q, answer |-> <<>>])

\* state.qa_pairs[-1]["answer"] = user_answer
SaveAnswer(qa_pairs, a) == [qa_pairs EXCEPT ![Len(qa_pairs)].answer = a]

IsFirstStep(state, user_answer) == ~user_answer.some /\ state.main_questions_asked = 0

IsFollowup_always(followup) == TRUE

\* if followup != "NONE"
IsFollowup(followup) == followup # NONE

BudgetReached_strict(state) == state.main_questions_asked > state.max_questions

BudgetReached(state) == state.main_questions_asked >= state.max_questions

AskMain_nocount(state, q) == [state EXCEPT !.qa_pairs = AppendQA(@, q)]

AskMain(state, q) ==
    [state EXCEPT !.main_questions_asked = @ + 1, !.qa_pairs = AppendQA(@, q)]

\* result of one orchestrator_step call; when raised, state and history are
\* the caller's objects as the call left them (they are mutated in place)
StepResult(raised, state, history, msg, finished, calls, fu) ==
    [raised |-> raised, state |-> state, history |-> history, msg |-> msg,
     finished |-> finished, calls |-> calls, fu |-> fu]

orchestrator_step(state, history, user_answer, g1, g2) ==
    IF IsFirstStep(state, user_answer)
    THEN LET h1 == Append(history, Turn("user", START_DIRECTIVE))
             q == interviewer_agent(state, h1, g1)
         IN IF q.raised
            THEN StepResult(TRUE, state, h1, None, FALSE, 1, None)
            ELSE StepResult(FALSE, AskMain(state, q.value),
                            Append(h1, Turn("assistant", q.value)), Some(q.value), FALSE, 1, None)
    ELSE IF user_answer.some
    THEN IF Len(state.qa_pairs) = 0
         THEN StepResult(TRUE, state, history, None, FALSE, 0, None)   \* IndexError
         ELSE
         LET s1 == [state EXCEPT !.qa_pairs = SaveAnswer(@, user_answer.val)]
             h1 == Append(history, Turn("user", user_answer.val))
             last_q == s1.qa_pairs[Len(s1.qa_pairs)].question
             all_questions == SelectSeq([i \in 1..Len(s1.qa_pairs) |-> s1.qa_pairs[i].question],
                                        LAMBDA x : Len(x) > 0)
             f == followup_agent(last_q, user_answer.val, all_questions, g1)
         IN IF f.raised
            THEN StepResult(TRUE, s1, h1, None, FALSE, 1, None)
            ELSE IF IsFollowup(f.value)
            THEN StepResult(FALSE, [s1 EXCEPT !.qa_pairs = AppendQA(@, f.value)],
                            Append(h1, Turn("assistant", f.value)), Some(f.value), FALSE, 1, Some(f.value))
            ELSE IF BudgetReached(s1)
            THEN StepResult(FALSE, s1, h1, None, TRUE, 1, Some(f.value))
            ELSE LET q == interviewer_agent(s1, h1, g2)
                 IN IF q.raised
                    THEN StepResult(TRUE, s1, h1, None, FALSE, 2, Some(f.value))
                    ELSE StepResult(FALSE, AskMain(s1, q.value),
                                    Append(h1, Turn("assistant", q.value)), Some(q.value), FALSE, 2, Some(f.value))
    ELSE StepResult(FALSE, state, history, None, TRUE, 0, None)

\* =========================================================== HTTP service
\* SESSIONS: the registry; resp: the last operation, what it returned and what it
\* saw (calls = gateway calls made, fu = the follow-up decision it got,
\* pre_finished / pre_asked = the session's flag and counter when it was called);
\* awaiting[s]: a question was issued to session s and no answer to it was submitted since
VARIABLES SESSIONS, resp, awaiting

\* a caller that holds one state and one history and calls orchestrator_step itself
VARIABLES dstate, dhistory, dret

\* run_console_interview: its locals, its position and what it printed for the pending question
VARIABLES cstate, chistory, cfinished, pc, hesitation_count, current_question, captured_answer, printed

\* the classifier applied to one line of input: the line and the class computed for it
VARIABLES utterance, classification

httpVars == <<SESSIONS, resp, awaiting>>
directVars == <<dstate, dhistory, dret>>
consoleVars == <<cstate, chistory, cfinished, pc, hesitation_count, current_question, captured_answer, printed>>
classVars == <<utterance, classification>>
vars == <<SESSIONS, resp, awaiting, dstate, dhistory, dret,
          cstate, chistory, cfinished, pc, hesitation_count, current_question, captured_answer, printed,
          utterance, classification>>

Response(op, sid, status, msg, finished, calls, pre_finished, pre_asked, fu) ==
    [op |-> op, sid |-> sid, status |-> status, msg |-> msg, finished |-> finished,
     calls |-> calls, pre_finished |-> pre_finished, pre_asked |-> pre_asked, fu |-> fu]

\* str(uuid.uuid4()): an identifier no earlier session has
uuid4 == SessionIds \ DOMAIN SESSIONS

SessionData(state, history, finished) == [state |-> state, history |-> history, finished |-> finished]

Put_only(f, k, v) == [x \in {k} |-> v]

\* SESSIONS[session_id] = {...}
Put(f, k, v) == [x \in DOMAIN f \cup {k} |-> IF x = k THEN v ELSE f[x]]

HttpInit ==
    /\ SESSIONS = <<>>
    /\ awaiting = <<>>
    /\ resp = Response("init", "none", "ok", None, FALSE, 0, FALSE, 0, None)

Known_nonempty(session_id) == DOMAIN SESSIONS # {}

\* get_session: the 404 guard
Known(session_id) == session_id \in DOMAIN SESSIONS

\* get_session: 404 for an unknown id, else the dictionary lookup (KeyError if it is not there)
get_session(session_id) ==
    IF ~Known(session_id) THEN "notfound"
    ELSE IF session_id \in DOMAIN SESSIONS THEN "ok" ELSE "error"

AlreadyFinished_never(session_data) == FALSE

\* answer(): the early return of a finished session
AlreadyFinished(session_data) == session_data.finished

start_interview_eager(role, max_questions, session_id, g) ==
    LET r == orchestrator_step(InterviewState(role, max_questions), <<>>, None, g, g)
    IN /\ SESSIONS' = Put(SESSIONS, session_id, SessionData(r.state, r.history, r.finished))
       /\ awaiting' = Put(awaiting, session_id, r.msg.some /\ ~r.finished)
       /\ resp' = Response("start", session_id, IF r.msg.some THEN "ok" ELSE "error",
                           r.msg, r.finished, r.calls, FALSE, 0, None)

start_interview(role, max_questions, session_id, g) ==
    LET r == orchestrator_step(InterviewState(role, max_questions), <<>>, None, g, g)
    IN IF r.raised
       THEN /\ resp' = Response("start", session_id, "error", None, FALSE, r.calls, FALSE, 0, None)
            /\ UNCHANGED <<SESSIONS, awaiting>>
       ELSE /\ SESSIONS' = Put(SESSIONS, session_id, SessionData(r.state, r.history, r.finished))
            /\ awaiting' = Put(awaiting, session_id, r.msg.some /\ ~r.finished)
            /\ resp' = Response("start", session_id, IF r.msg.some THEN "ok" ELSE "error",
                                r.msg, r.finished, r.calls, FALSE, 0, None)

Start ==
    \E role \in Roles, max_questions \in Budgets, session_id \in uuid4, g \in GatewayOutcomes :
        /\ start_interview(role, max_questions, session_id, g)
        /\ UNCHANGED <<directVars, consoleVars, classVars>>

answer(session_id, text, g1, g2) ==
    LET session_data == SESSIONS[session_id]
        pre == session_data.state.main_questions_asked
    IN IF AlreadyFinished(session_data)
       THEN /\ resp' = Response("answer", session_id, "ok", None, TRUE, 0, TRUE, pre, None)
            /\ UNCHANGED <<SESSIONS, awaiting>>
       ELSE LET r == orchestrator_step(session_data.state, session_data.history, Some(text), g1, g2)
            IN IF r.raised
               THEN \* the exception leaves the handler; state and history were mutated in place
                    /\ SESSIONS' = [SESSIONS EXCEPT ![session_id] =
                                        SessionData(r.state, r.history, session_data.finished)]
                    /\ awaiting' = [awaiting EXCEPT ![session_id] = FALSE]
                    /\ resp' = Response("answer", session_id, "error", None, FALSE, r.calls, FALSE, pre, r.fu)
               ELSE /\ SESSIONS' = [SESSIONS EXCEPT ![session_id] =
                                        SessionData(r.state, r.history, r.finished)]
                    /\ awaiting' = [awaiting EXCEPT ![session_id] = r.msg.some /\ ~r.finished]
                    /\ resp' = Response("answer", session_id, "ok", r.msg, r.finished, r.calls, FALSE, pre, r.fu)

Answer ==
    \E session_id \in RequestIds, text \in Answers, g1 \in GatewayOutcomes, g2 \in GatewayOutcomes :
        /\ get_session(session_id) = "ok"
        /\ SESSIONS[session_id].finished \/ Len(SESSIONS[session_id].history) + 2 <= MaxTurns
        /\ answer(session_id, text, g1, g2)
        /\ UNCHANGED <<directVars, consoleVars, classVars>>

AnswerNotFound ==
    \E session_id \in RequestIds :
        /\ get_session(session_id) # "ok"
        /\ resp' = Response("answer", session_id, get_session(session_id), None, FALSE, 0, FALSE, 0, None)
        /\ UNCHANGED <<SESSIONS, awaiting, directVars, consoleVars, classVars>>

get_feedback_delete(session_id, g) ==
    /\ resp' = Response("feedback", session_id, "ok", Some(feedback_agent(SESSIONS[session_id].state, g).value),
                        SESSIONS[session_id].finished, 1, SESSIONS[session_id].finished,
                        SESSIONS[session_id].state.main_questions_asked, None)
    /\ SESSIONS' = [x \in DOMAIN SESSIONS \ {session_id} |-> SESSIONS[x]]
    /\ UNCHANGED awaiting

get_feedback(session_id, g) ==
    LET r == feedback_agent(SESSIONS[session_id].state, g)
        s == SESSIONS[session_id]
    IN /\ resp' = Response("feedback", session_id, IF r.raised THEN "error" ELSE "ok",
                           IF r.raised THEN None ELSE Some(r.value), s.finished, 1,
                           s.finished, s.state.main_questions_asked, None)
       /\ UNCHANGED <<SESSIONS, awaiting>>

\* POST /feedback for session_id, the gateway doing g
FeedbackWith(session_id, g) ==
    /\ get_session(session_id) = "ok"
    /\ get_feedback(session_id, g)
    /\ UNCHANGED <<directVars, consoleVars, classVars>>

Feedback ==
    \E session_id \in RequestIds, g \in GatewayOutcomes : FeedbackWith(session_id, g)

FeedbackNotFound ==
    \E session_id \in RequestIds :
        /\ get_session(session_id) # "ok"
        /\ resp' = Response("feedback", session_id, get_session(session_id), None, FALSE, 0, FALSE, 0, None)
        /\ UNCHANGED <<SESSIONS, awaiting, directVars, consoleVars, classVars>>

\* ================================================= direct orchestrator caller
DirectReturn(called, raised, msg, finished, calls, ever_finished) ==
    [called |-> called, raised |-> raised, msg |-> msg, finished |-> finished,
     calls |-> calls, ever_finished |-> ever_finished]

DirectIdle ==
    /\ dstate = InterviewState(SoftwareEngineer, 0)
    /\ dhistory = <<>>
    /\ dret = DirectReturn(FALSE, FALSE, None, FALSE, 0, FALSE)

DirectInit ==
    /\ dstate \in {InterviewState(SoftwareEngineer, n) : n \in Budgets}
    /\ dhistory = <<>>
    /\ dret = DirectReturn(FALSE, FALSE, None, FALSE, 0, FALSE)

\* state, history, msg, finished = orchestrator_step(state, history, user_answer);
\* ever_finished: a call on this state has returned finished=True
DirectStep ==
    \E user_answer \in {None} \cup {Some(a) : a \in Answers},
       g1 \in GatewayOutcomes, g2 \in GatewayOutcomes :
        /\ Len(dhistory) + 2 <= MaxTurns
        /\ LET r == orchestrator_step(dstate, dhistory, user_answer, g1, g2)
           IN /\ dstate' = r.state
              /\ dhistory' = r.history
              /\ dret' = DirectReturn(TRUE, r.raised, r.msg, r.finished, r.calls,
                                      dret.ever_finished \/ (~r.raised /\ r.finished))
        /\ UNCHANGED <<httpVars, consoleVars, classVars>>

\* ======================================================== console interview
ConsoleIdle ==
    /\ cstate = InterviewState(SoftwareEngineer, 0)
    /\ chistory = <<>>
    /\ cfinished = FALSE
    /\ pc = "idle"
    /\ hesitation_count = 0
    /\ current_question = None
    /\ captured_answer = None
    /\ printed = <<>>

ConsoleInit ==
    /\ cstate \in {InterviewState(SoftwareEngineer, n) : n \in Budgets}
    /\ chistory = <<>>
    /\ cfinished = FALSE
    /\ pc = "start"
    /\ hesitation_count = 0
    /\ current_question = None
    /\ captured_answer = None
    /\ printed = <<>>

Printed(kind, text) == [kind |-> kind, text |-> text]

IsSymbolNoise_any(text) == Len(text) > 0 /\ \A i \in 1..Len(text) : text[i] \notin ALNUM

\* re.fullmatch(r'[^a-zA-Z0-9\s]+', text)
IsSymbolNoise(text) == Len(text) > 0 /\ \A i \in 1..Len(text) : text[i] \notin ALNUM \cup WHITESPACE

is_hesitation(ans) ==
    IF ~ans.some THEN TRUE
    ELSE LET text == lower(strip(ans.val))
         IN IF text = <<>> THEN TRUE
            ELSE IF text \in HESITATION_PHRASES THEN TRUE
            ELSE IF Len(text) = 1 /\ text \notin {<<"y">>, <<"n">>} THEN TRUE
            ELSE IF Len(text) <= 2 /\ text \notin POSITIVE_SHORTS THEN TRUE
            ELSE IF Len(text) <= 4 /\ IsSymbolNoise(text) THEN TRUE
            ELSE FALSE

supportive_repeat_text(original_question) == REPEAT_PREFIX \o original_question

timeout_agent_empty(g) == chat_with_groq(g).value

timeout_agent(g) ==
    LET r == chat_with_groq(g) IN IF r.raised THEN TIMEOUT_FALLBACK ELSE r.value

IsExit(user_input) == lower(strip(user_input)) \in EXIT_WORDS

IsPositiveShort_any(user_input) == TRUE

IsPositiveShort(user_input) == lower(strip(user_input)) \in POSITIVE_SHORTS

HesitationStage_early(count) == IF count = 1 THEN "reengage" ELSE "skip"

\* the branch on hesitation_count after the increment
HesitationStage(count) ==
    IF count = 1 THEN "reengage" ELSE IF count = 2 THEN "repeat" ELSE "skip"

\* current_question or "Can you elaborate?"
QuestionToRepeat(q) == IF q.some /\ q.val # <<>> THEN q.val ELSE ELABORATE

\* the head of the main loop: while not finished, a fresh counter for the question now pending
NextEpisode(state, finished) ==
    IF finished
    THEN /\ pc' = "feedback"
         /\ UNCHANGED <<hesitation_count, captured_answer, current_question, printed>>
    ELSE /\ pc' = "input"
         /\ hesitation_count' = 0
         /\ captured_answer' = None
         /\ current_question' = IF Len(state.qa_pairs) > 0
                                THEN Some(state.qa_pairs[Len(state.qa_pairs)].question) ELSE None
         /\ printed' = <<>>

\* the first orchestrator call of run_console_interview
ConsoleStart ==
    /\ pc = "start"
    /\ \E g \in GatewayOutcomes :
        LET r == orchestrator_step(cstate, chistory, None, g, g)
        IN /\ cstate' = r.state
           /\ chistory' = r.history
           /\ IF r.raised
              THEN /\ pc' = "crashed"
                   /\ UNCHANGED <<cfinished, hesitation_count, captured_answer, current_question, printed>>
              ELSE /\ cfinished' = r.finished
                   /\ NextEpisode(r.state, r.finished)
    /\ UNCHANGED <<httpVars, directVars, classVars>>

\* input() returns an exit word
ConsoleExit ==
    /\ pc = "input"
    /\ \E user_input \in Utterances :
        /\ IsExit(user_input)
        /\ cfinished' = TRUE
        /\ pc' = "feedback"
    /\ UNCHANGED <<cstate, chistory, hesitation_count, captured_answer, current_question, printed>>
    /\ UNCHANGED <<httpVars, directVars, classVars>>

\* input() returns a short affirmative or any other line that is not a hesitation
ConsoleAccept ==
    /\ pc = "input"
    /\ \E user_input \in Utterances :
        /\ ~IsExit(user_input)
        /\ IsPositiveShort(user_input) \/ ~is_hesitation(Some(user_input))
        /\ captured_answer' = Some(strip(user_input))
        /\ pc' = "step"
    /\ UNCHANGED <<cstate, chistory, cfinished, hesitation_count, current_question, printed>>
    /\ UNCHANGED <<httpVars, directVars, classVars>>

RepeatHistory_none(history, repeat_msg) == history

\* history.append({"role": "assistant", "content": repeat_msg})
RepeatHistory(history, repeat_msg) == Append(history, Turn("assistant", repeat_msg))

\* input() returns the hesitation user_input; g is what the gateway does if timeout_agent calls it
ConsoleHesitateWith(user_input, g) ==
    /\ pc = "input"
    /\ ~IsExit(user_input)
    /\ ~IsPositiveShort(user_input)
    /\ is_hesitation(Some(user_input))
    /\ hesitation_count' = hesitation_count + 1
    /\ LET stage == HesitationStage(hesitation_count + 1)
       IN IF stage = "reengage"
          THEN /\ printed' = Append(printed, Printed("reengage", timeout_agent(g)))
               /\ UNCHANGED <<chistory, captured_answer, pc>>
          ELSE IF stage = "repeat"
          THEN LET repeat_msg == supportive_repeat_text(QuestionToRepeat(current_question))
               IN /\ printed' = Append(printed, Printed("repeat", repeat_msg))
                  /\ chistory' = RepeatHistory(chistory, repeat_msg)
                  /\ UNCHANGED <<captured_answer, pc>>
          ELSE /\ printed' = Append(printed, Printed("skip", SKIP_MSG))
               /\ captured_answer' = Some(SKIP_MARKER)
               /\ pc' = "step"
               /\ UNCHANGED chistory
    /\ UNCHANGED <<cstate, cfinished, current_question>>
    /\ UNCHANGED <<httpVars, directVars, classVars>>

\* input() returns a hesitation
ConsoleHesitate ==
    \E user_input \in Utterances, g \in GatewayOutcomes : ConsoleHesitateWith(user_input, g)

\* the orchestrator call with the captured answer, then back to the head of the loop
ConsoleStep ==
    /\ pc = "step"
    /\ Len(chistory) + 2 <= MaxTurns
    /\ \E g1 \in GatewayOutcomes, g2 \in GatewayOutcomes :
        LET r == orchestrator_step(cstate, chistory, captured_answer, g1, g2)
        IN /\ cstate' = r.state
           /\ chistory' = r.history
           /\ IF r.raised
              THEN /\ pc' = "crashed"
                   /\ UNCHANGED <<cfinished, hesitation_count, captured_answer, current_question, printed>>
              ELSE /\ cfinished' = r.finished
                   /\ NextEpisode(r.state, r.finished)
    /\ UNCHANGED <<httpVars, directVars, classVars>>

\* the feedback phase
ConsoleFeedback ==
    /\ pc = "feedback"
    /\ \E g \in GatewayOutcomes :
        pc' = IF feedback_agent(cstate, g).raised THEN "crashed" ELSE "done"
    /\ UNCHANGED <<cstate, chistory, cfinished, hesitation_count, captured_answer, current_question, printed>>
    /\ UNCHANGED <<httpVars, directVars, classVars>>

\* ================================================================ classifier
ClassIdle ==
    /\ utterance = None
    /\ classification = "idle"

ClassInit ==
    /\ utterance \in {None} \cup {Some(u) : u \in Lines}
    /\ classification = "unclassified"

\* what the input loop does with a line: quick accept of a short affirmative,
\* then is_hesitation, else a usable answer
Classification(user_input) ==
    IF user_input.some /\ IsPositiveShort(user_input.val) THEN "PositiveShort"
    ELSE IF is_hesitation(user_input) THEN "Hesitant"
    ELSE "Substantive"

Classify ==
    /\ classification = "unclassified"
    /\ classification' = Classification(utterance)
    /\ UNCHANGED <<utterance, httpVars, directVars, consoleVars>>

\* ------------------------------------------------------------ specifications
Init == HttpInit /\ DirectIdle /\ ConsoleIdle /\ ClassIdle

Next == Start \/ Answer \/ AnswerNotFound \/ Feedback \/ FeedbackNotFound

Spec == Init /\ [][Next]_vars

StepInit == HttpInit /\ DirectInit /\ ConsoleIdle /\ ClassIdle

StepNext == DirectStep

StepSpec == StepInit /\ [][StepNext]_vars

ConsoleSpecInit == HttpInit /\ DirectIdle /\ ConsoleInit /\ ClassIdle

ConsoleNext == ConsoleStart \/ ConsoleExit \/ ConsoleAccept \/ ConsoleHesitate \/ ConsoleStep \/ ConsoleFeedback

ConsoleSpec == ConsoleSpecInit /\ [][ConsoleNext]_vars

ClassSpecInit == HttpInit /\ DirectIdle /\ ConsoleIdle /\ ClassInit

ClassNext == Classify

ClassSpec == ClassSpecInit /\ [][ClassNext]_vars

\* ------------------------------------- answers that keep meeting the sentinel
\* what the gateway does here: it fails, says "NONE" or asks "Why?"
LiveOutcomes == {GatewayFailure, GatewaySentinel, [ok |-> TRUE, content |-> <<"W","h","y","?","\n">>]}

\* POST /start for one role, every budget
LiveStart ==
    \E max_questions \in Budgets, session_id \in uuid4, g \in LiveOutcomes :
        /\ start_interview(SoftwareEngineer, max_questions, session_id, g)
        /\ UNCHANGED <<directVars, consoleVars, classVars>>

\* POST /answer, whatever the gateway does, while the history has room
LiveAnswer ==
    \E session_id \in SessionIds, text \in Answers, g1 \in LiveOutcomes, g2 \in LiveOutcomes :
        /\ get_session(session_id) = "ok"
        /\ SESSIONS[session_id].finished \/ Len(SESSIONS[session_id].history) + 2 <= MaxTurns
        /\ answer(session_id, text, g1, g2)
        /\ UNCHANGED <<directVars, consoleVars, classVars>>

\* room in the history for the answers that meet "NONE": each of them
\* appends at most two turns and at most max_questions of them ask a question
LiveTurns(state) == MaxTurns + 2 * (state.max_questions + 1)

\* POST /answer for session_id when the follow-up decision is "NONE" and
\* the gateway does not fail
AnswerSentinel(session_id) ==
    \E text \in Answers, g2 \in LiveOutcomes \ {GatewayFailure} :
        /\ get_session(session_id) = "ok"
        /\ \/ SESSIONS[session_id].finished
           \/ Len(SESSIONS[session_id].history) + 2 <= LiveTurns(SESSIONS[session_id].state)
        /\ answer(session_id, text, GatewaySentinel, g2)
        /\ UNCHANGED <<directVars, consoleVars, classVars>>

SubmitSentinel == \E session_id \in SessionIds : AnswerSentinel(session_id)

LiveNext == LiveStart \/ LiveAnswer \/ SubmitSentinel

\* answers keep being submitted and keep meeting a working gateway that says "NONE"
LiveSpec ==
    /\ Init /\ [][LiveNext]_vars
    /\ \A session_id \in SessionIds : WF_vars(AnswerSentinel(session_id))

\* ------------------------------------------------- two sessions, one registry
\* the ids uuid4 can return when two sessions are started
RegistryIds == {"u1", "u2"}

RegistryBudget == 1

RegistryOutcomes == {GatewayFailure} \cup
    {[ok |-> TRUE, content |-> c] : c \in {NONE, <<"W","h","y","?","\n">>}}

RegistryInit == HttpInit /\ DirectIdle /\ ConsoleIdle /\ ClassIdle

RegStart ==
    \E session_id \in RegistryIds \ DOMAIN SESSIONS, g \in RegistryOutcomes :
        /\ start_interview(SoftwareEngineer, RegistryBudget, session_id, g)
        /\ UNCHANGED <<directVars, consoleVars, classVars>>

RegAnswer ==
    \E session_id \in RegistryIds, g1 \in RegistryOutcomes, g2 \in RegistryOutcomes :
        /\ get_session(session_id) = "ok"
        /\ SESSIONS[session_id].finished \/ Len(SESSIONS[session_id].history) + 2 <= MaxTurns
        /\ answer(session_id, <<"R","u","s","t">>, g1, g2)
        /\ UNCHANGED <<directVars, consoleVars, classVars>>

RegFeedback ==
    \E session_id \in RegistryIds, g \in RegistryOutcomes : FeedbackWith(session_id, g)

RegistryNext == RegStart \/ RegAnswer \/ RegFeedback

RegistrySpec == RegistryInit /\ [][RegistryNext]_vars

\* ================================================================ claims
Asked(s) == SESSIONS[s].state.main_questions_asked
Budget(s) == SESSIONS[s].state.max_questions
QaLog(s) == SESSIONS[s].state.qa_pairs
Questions(qa_pairs) == [i \in 1..Len(qa_pairs) |-> qa_pairs[i].question]
IsPrefix(a, b) == Len(a) <= Len(b) /\ SubSeq(b, 1, Len(a)) = a

\* C1: in every session mainQuestionsAsked never exceeds questionBudget, and
\* no operation decreases mainQuestionsAsked.
C1_BudgetNeverExceeded ==
    /\ [](\A s \in DOMAIN SESSIONS : Asked(s) <= Budget(s))
    /\ [][\A s \in DOMAIN SESSIONS : SESSIONS'[s].state.main_questions_asked >= Asked(s)]_vars

\* C2 (as stated): every submitAnswer that returns does so with finished=true
\* exactly when the gateway answered this call with the sentinel and
\* mainQuestionsAsked >= N at that moment, and then with no message.
C2_FinishExactlyOnSentinel ==
    (resp.op = "answer" /\ resp.status = "ok") =>
        /\ resp.finished <=> (resp.fu = Some(NONE) /\ resp.pre_asked >= Budget(resp.sid))
        /\ resp.finished => ~resp.msg.some

\* C2 (amended): a submitAnswer on a session that is not yet finished returns
\* finished=true exactly when the gateway answered this call with the sentinel
\* and mainQuestionsAsked >= N at that moment; every submitAnswer that returns
\* finished=true emits no message and has mainQuestionsAsked >= N.
C2_FinishExactlyOnSentinelWhenOpen ==
    (resp.op = "answer" /\ resp.status = "ok") =>
        /\ ~resp.pre_finished =>
              (resp.finished <=> (resp.fu = Some(NONE) /\ resp.pre_asked >= Budget(resp.sid)))
        /\ resp.finished =>
              (~resp.msg.some /\ resp.pre_asked >= Budget(resp.sid) /\ Asked(resp.sid) = resp.pre_asked)

\* the call carrying the answer to the N-th main question (N = 2) finishes the session
C2_Witness ==
    /\ resp.op = "answer" /\ resp.status = "ok" /\ ~resp.pre_finished /\ resp.finished
    /\ Budget(resp.sid) = 2 /\ resp.pre_asked = 2 /\ Len(QaLog(resp.sid)) = 2

\* C3: the first question recorded in qaLog and returned by start is the
\* fixed introduction request, verbatim.
C3_FirstQuestionIsIntroduction ==
    /\ \A s \in DOMAIN SESSIONS : Len(QaLog(s)) > 0 => QaLog(s)[1].question = FIRST_QUESTION
    /\ (resp.op = "start" /\ resp.status = "ok") => resp.msg = Some(FIRST_QUESTION)

\* C4: once a session is finished, no operation changes its qaLog,
\* mainQuestionsAsked, history or finished flag, and a submitAnswer on it
\* returns (None, true) without a gateway call.
C4_FinishedIsFinal ==
    [][\A s \in DOMAIN SESSIONS : SESSIONS[s].finished =>
          /\ SESSIONS'[s] = SESSIONS[s]
          /\ (resp'.op = "answer" /\ resp'.sid = s) =>
                (resp'.status = "ok" /\ ~resp'.msg.some /\ resp'.finished /\ resp'.calls = 0)]_vars

\* a submitAnswer was made on a session that was already finished
C4_Witness == resp.op = "answer" /\ resp.pre_finished /\ SESSIONS[resp.sid].finished

\* C5: submitting the empty string for a pending question never increases
\* mainQuestionsAsked and is never recorded as the answer of that question.
C5_EmptyIsNotAnAnswer ==
    [][\A s \in DOMAIN SESSIONS : \A g1 \in GatewayOutcomes, g2 \in GatewayOutcomes :
          (awaiting[s] /\ answer(s, <<>>, g1, g2)) =>
              /\ SESSIONS'[s].state.main_questions_asked = Asked(s)
              /\ SESSIONS'[s].state.qa_pairs = QaLog(s)]_vars

Kinds(p) == [i \in 1..Len(p) |-> p[i].kind]
Contains(hay, needle) ==
    \E i \in 0..(Len(hay) - Len(needle)) : SubSeq(hay, i + 1, i + Len(needle)) = needle
PendingQuestion == cstate.qa_pairs[Len(cstate.qa_pairs)].question
Escalation == <<"reengage", "repeat", "skip">>

\* C6: while a question is pending, the n-th consecutive hesitation has
\* produced exactly the first n of (re-engagement, repeat of the pending
\* question verbatim, skip); the episode waits for input only after fewer
\* than three hesitations, and it ends with the skip marker as its answer
\* exactly at the third.
C6_EscalationInOrder ==
    (pc \in {"input", "step"}) =>
        /\ hesitation_count \in 0..3
        /\ Kinds(printed) = SubSeq(Escalation, 1, hesitation_count)
        /\ hesitation_count >= 2 => Contains(printed[2].text, PendingQuestion)
        /\ pc = "input" => hesitation_count <= 2
        /\ hesitation_count = 3 => (pc = "step" /\ captured_answer = Some(SKIP_MARKER))

\* the second question is skipped after three hesitations, the first one was too
C6_Witness ==
    /\ pc = "step" /\ hesitation_count = 3 /\ Len(printed) = 3
    /\ Len(cstate.qa_pairs) = 2
    /\ cstate.qa_pairs[1].answer = SKIP_MARKER
    /\ PendingQuestion # <<>>

\* C7: an operation that reports a gateway failure leaves every session's
\* qaLog, mainQuestionsAsked, history and finished flag as they were.
C7_FailureIsAllOrNothing ==
    [][resp'.status = "error" => SESSIONS' = SESSIONS]_vars

\* C8: once orchestrator_step has returned finished=true for a state, every
\* further call on that state returns (state, history, None, true), leaves
\* state and history unchanged and calls no gateway.
C8_StepFinishedAbsorbing ==
    [][dret.ever_finished =>
          /\ dstate' = dstate
          /\ dhistory' = dhistory
          /\ ~dret'.raised /\ ~dret'.msg.some /\ dret'.finished /\ dret'.calls = 0]_vars

\* C9: the question texts of qaLog before an operation are a prefix of the
\* question texts after it.
C9_QaLogAppendOnly ==
    [][\A s \in DOMAIN SESSIONS :
          /\ s \in DOMAIN SESSIONS'
          /\ IsPrefix(Questions(QaLog(s)), Questions(SESSIONS'[s].state.qa_pairs))]_vars

\* a qaLog that grew over several operations: a main question, a follow-up, a main question
C9_Witness ==
    \E s \in DOMAIN SESSIONS :
        /\ Len(QaLog(s)) = 3 /\ Asked(s) = 2
        /\ QaLog(s)[1].answer # <<>> /\ QaLog(s)[2].answer # <<>>

\* C10: the last qaLog entry has an empty answer iff the session is awaiting
\* a response to that question.
C10_LastAnswerEmptyIffAwaiting ==
    \A s \in DOMAIN SESSIONS :
        Len(QaLog(s)) > 0 => (QaLog(s)[Len(QaLog(s))].answer = <<>> <=> awaiting[s])

Contents(h) == [i \in 1..Len(h) |-> h[i].content]
AssistantTurns(h) == Contents(SelectSeq(h, LAMBDA t : t.role = "assistant"))
UserTurnsAfterStart(h) == Contents(SelectSeq(Tail(h), LAMBDA t : t.role = "user"))
NonPendingAnswers(s) ==
    LET n == IF awaiting[s] THEN Len(QaLog(s)) - 1 ELSE Len(QaLog(s))
    IN [i \in 1..n |-> QaLog(s)[i].answer]

\* C11: the history only grows, the question texts of qaLog are the
\* assistant turns of the history in order, and the answers of the entries
\* that are not pending are the user turns after the start directive in order.
C11_HistoryMirrorsQaLog ==
    /\ [](\A s \in DOMAIN SESSIONS :
            /\ Questions(QaLog(s)) = AssistantTurns(SESSIONS[s].history)
            /\ NonPendingAnswers(s) = UserTurnsAfterStart(SESSIONS[s].history))
    /\ [][\A s \in DOMAIN SESSIONS : IsPrefix(SESSIONS[s].history, SESSIONS'[s].history)]_vars

\* a step that issued a follow-up / a main question to session s
IssuedFollowup(s) ==
    resp'.op = "answer" /\ resp'.sid = s /\ resp'.status = "ok" /\ ~resp'.pre_finished
        /\ resp'.fu.some /\ resp'.fu.val # NONE
IssuedMain(s) ==
    \/ resp'.op = "start" /\ resp'.sid = s /\ resp'.status = "ok"
    \/ resp'.op = "answer" /\ resp'.sid = s /\ resp'.status = "ok" /\ ~resp'.pre_finished
          /\ resp'.fu = Some(NONE) /\ resp'.msg.some
AskedBefore(s) == IF s \in DOMAIN SESSIONS THEN Asked(s) ELSE 0
QaLogBefore(s) == IF s \in DOMAIN SESSIONS THEN QaLog(s) ELSE <<>>
HistoryBefore(s) == IF s \in DOMAIN SESSIONS THEN SESSIONS[s].history ELSE <<>>

\* C12: every step changes mainQuestionsAsked by 1 if it issues a main
\* question and by 0 otherwise; a step that issues a follow-up appends one
\* qaLog entry with an empty answer and one assistant turn and returns not
\* finished; so the length of qaLog grows by the growth of mainQuestionsAsked
\* plus one for each follow-up issued.
C12_CounterCountsMainQuestions ==
    [][\A s \in DOMAIN SESSIONS' :
          LET st == SESSIONS'[s].state
          IN /\ st.main_questions_asked = AskedBefore(s) + (IF IssuedMain(s) THEN 1 ELSE 0)
             /\ Len(st.qa_pairs) = Len(QaLogBefore(s)) + (IF IssuedMain(s) \/ IssuedFollowup(s) THEN 1 ELSE 0)
             /\ IssuedFollowup(s) =>
                   /\ st.qa_pairs[Len(st.qa_pairs)] = [question |-> resp'.fu.val, answer |-> <<>>]
                   /\ SESSIONS'[s].history =
                          HistoryBefore(s) \o <<SESSIONS'[s].history[Len(HistoryBefore(s)) + 1],
                                                Turn("assistant", resp'.fu.val)>>
                   /\ ~resp'.finished /\ ~SESSIONS'[s].finished
                   /\ resp'.msg = resp'.fu]_vars

\* a follow-up was just issued after the second main question
C12_Witness ==
    /\ resp.op = "answer" /\ resp.status = "ok" /\ resp.fu.some /\ resp.fu.val # NONE
    /\ Asked(resp.sid) = 2 /\ Len(QaLog(resp.sid)) = 3
    /\ QaLog(resp.sid)[3].question = resp.fu.val

\* C18: no question text in qaLog is the empty string (an empty gateway
\* reply is a failure, never a question).
C18_NoEmptyQuestion ==
    \A s \in DOMAIN SESSIONS : \A i \in 1..Len(QaLog(s)) : QaLog(s)[i].question # <<>>

\* rules (a)-(g) of the classifier, applied in order; noise(t) is the test of rule (f)
RulesAtoG(u, noise(_)) ==
    IF ~u.some \/ strip(u.val) = <<>> THEN "Hesitant"
    ELSE LET t == lower(strip(u.val))
         IN IF t \in HESITATION_PHRASES THEN "Hesitant"
            ELSE IF t \in POSITIVE_SHORTS THEN "PositiveShort"
            ELSE IF Len(t) = 1 /\ t \notin {<<"y">>, <<"n">>} THEN "Hesitant"
            ELSE IF Len(t) <= 2 THEN "Hesitant"
            ELSE IF Len(t) <= 4 /\ noise(t) THEN "Hesitant"
            ELSE "Substantive"
EntirelyNonAlphanumeric(t) == \A i \in 1..Len(t) : t[i] \notin ALNUM
OnlyPunctuation(t) == \A i \in 1..Len(t) : t[i] \notin ALNUM /\ t[i] \notin WHITESPACE

C14_UnknownSessionNotFound ==
    [][(resp'.op \in {"answer", "feedback"} /\ resp'.sid \notin DOMAIN SESSIONS) =>
          /\ resp'.status = "notfound"
          /\ resp'.calls = 0 /\ ~resp'.msg.some
          /\ SESSIONS' = SESSIONS]_vars

\* an unknown id was refused while another session existed and awaited an answer
C14_Witness ==
    /\ resp.op = "answer" /\ resp.status = "notfound" /\ resp.sid \notin DOMAIN SESSIONS
    /\ \E s \in DOMAIN SESSIONS : awaiting[s] /\ Len(QaLog(s)) = 2

\* C15: when the gateway fails on the first hesitation of an episode, the
\* fixed fallback sentence is the re-engagement message, the loop keeps
\* waiting with hesitationCount = 1 and nothing is raised, and qaLog,
\* mainQuestionsAsked and the history are unchanged.
C15_ReengageFallsBack ==
    [][\A u \in Utterances :
          (hesitation_count = 0 /\ ConsoleHesitateWith(u, GatewayFailure)) =>
              /\ printed' = <<Printed("reengage", TIMEOUT_FALLBACK)>>
              /\ pc' = "input" /\ hesitation_count' = 1 /\ ~captured_answer'.some
              /\ cstate' = cstate /\ chistory' = chistory /\ cfinished' = cfinished]_vars

\* the fallback sentence was printed for the follow-up that is pending
C15_Witness ==
    /\ pc = "input" /\ hesitation_count = 1
    /\ printed = <<Printed("reengage", TIMEOUT_FALLBACK)>>
    /\ Len(cstate.qa_pairs) = 2 /\ cstate.main_questions_asked = 1

\* C17: an episode hands its answer to the orchestrator after at most three
\* utterances; the answer is the trimmed text of an utterance that is not
\* Hesitant (after zero, one or two hesitations) or, at the third hesitation,
\* the skip marker; it is never empty and never Hesitant; each captured
\* answer goes to exactly one orchestrator step, and only these steps and
\* the first one change the interview state.
C17_OneUsableAnswerPerEpisode ==
    /\ [](pc = "step" =>
            /\ captured_answer.some /\ captured_answer.val # <<>>
            /\ Classification(captured_answer) # "Hesitant"
            /\ hesitation_count <= 3
            /\ IF hesitation_count = 3
               THEN captured_answer = Some(SKIP_MARKER)
               ELSE \E u \in Utterances :
                       /\ ~IsExit(u) /\ Classification(Some(u)) # "Hesitant"
                       /\ captured_answer = Some(strip(u)))
    /\ [][/\ pc' = "step" => pc = "input"
          /\ pc = "step" => (pc' \in {"input", "feedback", "crashed"}
                             /\ (pc' = "input" => (~captured_answer'.some /\ hesitation_count' = 0)))
          /\ cstate' # cstate => pc \in {"start", "step"}]_vars

\* the answer was accepted, trimmed, after two hesitations
C17_Witness ==
    /\ pc = "step" /\ hesitation_count = 2 /\ Len(printed) = 2
    /\ captured_answer = Some(<<"R","u","s","t">>)

\* C19: a hesitation never changes qaLog or mainQuestionsAsked; the first
\* and the third leave the history as it is, the second appends the repeat
\* message to it as one assistant turn.
C19_OnlyRepeatEntersHistory ==
    [][hesitation_count' = hesitation_count + 1 =>
          /\ cstate' = cstate
          /\ IF hesitation_count' = 2
             THEN /\ printed'[2].kind = "repeat"
                  /\ chistory' = Append(chistory, Turn("assistant", printed'[2].text))
             ELSE chistory' = chistory]_vars

\* after two hesitations the history ends with the repeat message and does not hold the re-engagement
C19_Witness ==
    /\ pc = "input" /\ hesitation_count = 2 /\ Len(chistory) = 3
    /\ chistory[3] = Turn("assistant", printed[2].text)
    /\ \A i \in 1..Len(chistory) : chistory[i].content # printed[1].text

\* C16 as stated: feedback can be requested in every state of an existing
\* session, every such request returns a report, and it leaves qaLog,
\* mainQuestionsAsked, the history and the finished flag unchanged.
C16_FeedbackAlwaysReports ==
    /\ [](\A s \in DOMAIN SESSIONS : \A g \in GatewayOutcomes : ENABLED FeedbackWith(s, g))
    /\ [][\A s \in DOMAIN SESSIONS : \A g \in GatewayOutcomes :
             FeedbackWith(s, g) =>
                 /\ resp'.status = "ok" /\ resp'.msg.some
                 /\ SESSIONS' = SESSIONS]_vars

\* C16 amended: feedback can be requested in every state of an existing
\* session; it returns the gateway's text as the report when the gateway
\* succeeds and reports the failure when it does not; in both cases qaLog,
\* mainQuestionsAsked, the history and the finished flag are unchanged.
C16_FeedbackReportsOrFails ==
    /\ [](\A s \in DOMAIN SESSIONS : \A g \in GatewayOutcomes : ENABLED FeedbackWith(s, g))
    /\ [][\A s \in DOMAIN SESSIONS : \A g \in GatewayOutcomes :
             FeedbackWith(s, g) =>
                 /\ IF g.ok THEN resp'.status = "ok" /\ resp'.msg = Some(strip(g.content))
                            ELSE resp'.status = "error" /\ ~resp'.msg.some
                 /\ SESSIONS' = SESSIONS]_vars

\* a report was returned for an unfinished session whose last question is unanswered
C16_Witness ==
    /\ resp.op = "feedback" /\ resp.status = "ok" /\ resp.msg.some
    /\ resp.sid \in DOMAIN SESSIONS
    /\ ~SESSIONS[resp.sid].finished /\ awaiting[resp.sid]
    /\ Len(QaLog(resp.sid)) = 2 /\ QaLog(resp.sid)[2].answer = <<>>

\* C20: a start stores its session under an id no stored session has and
\* removes none; whatever the operation, every stored session other than
\* the one it names keeps its state, history and finished flag.
C20_SessionsIndependent ==
    [][/\ DOMAIN SESSIONS \subseteq DOMAIN SESSIONS'
       /\ \A s \in DOMAIN SESSIONS' \ DOMAIN SESSIONS : resp'.op = "start" /\ resp'.sid = s
       /\ (resp'.op = "start" /\ resp'.status = "ok") =>
              (resp'.sid \notin DOMAIN SESSIONS /\ resp'.sid \in DOMAIN SESSIONS')
       /\ \A s \in DOMAIN SESSIONS : s # resp'.sid => SESSIONS'[s] = SESSIONS[s]]_vars

\* an answer was taken for one session while the other one, already finished, stayed as it was
C20_Witness ==
    /\ DOMAIN SESSIONS = RegistryIds
    /\ \E s \in RegistryIds, t \in RegistryIds :
          /\ s # t /\ SESSIONS[s].finished /\ ~SESSIONS[t].finished
          /\ resp.op = "answer" /\ resp.sid = t /\ resp.status = "ok"
          /\ Len(SESSIONS[t].history) = 4

\* C21: when answers keep being submitted and keep meeting a gateway that
\* works and replies with the no-follow-up sentinel, every session
\* eventually is finished, such an answer being possible as long as it is
\* not; and however many follow-ups came before, a
\* follow-up reply to the answer of an unfinished session is issued as one
\* more follow-up, leaving the session unfinished and the counter as it was.
C21_EventuallyFinished ==
    /\ \A s \in SessionIds :
          (s \in DOMAIN SESSIONS) ~> (s \in DOMAIN SESSIONS /\ SESSIONS[s].finished)
    /\ [](\A s \in DOMAIN SESSIONS : ~SESSIONS[s].finished => ENABLED AnswerSentinel(s))
    /\ [][(/\ resp'.op = "answer" /\ resp'.status = "ok" /\ ~resp'.pre_finished
           /\ resp'.fu.some /\ resp'.fu.val # NONE) =>
              /\ ~SESSIONS'[resp'.sid].finished
              /\ SESSIONS'[resp'.sid].state.main_questions_asked = Asked(resp'.sid)
              /\ Len(SESSIONS'[resp'.sid].state.qa_pairs) = Len(QaLog(resp'.sid)) + 1
              /\ resp'.msg = resp'.fu]_vars

\* a session finished after two follow-ups in a row on its only main question
C21_Witness ==
    \E s \in DOMAIN SESSIONS :
        /\ SESSIONS[s].finished /\ Budget(s) = 1 /\ Asked(s) = 1 /\ Len(QaLog(s)) = 3
        /\ Len(SESSIONS[s].history) = 7

\* C22: every session in the registry has a non-empty qaLog and
\* mainQuestionsAsked >= 1; an answer to an unfinished session reaches the
\* follow-up decision, with a last qaLog entry to decide on; a start whose
\* first question could not be generated leaves the registry as it was.
C22_StoredSessionsHaveAQuestion ==
    /\ [](\A s \in DOMAIN SESSIONS : Len(QaLog(s)) >= 1 /\ Asked(s) >= 1)
    /\ [][/\ (resp'.op = "start" /\ resp'.status = "error") =>
                (SESSIONS' = SESSIONS /\ resp'.sid \notin DOMAIN SESSIONS')
          /\ (resp'.op = "answer" /\ resp'.sid \in DOMAIN SESSIONS /\ ~resp'.pre_finished) =>
                (resp'.calls >= 1 /\ Len(QaLog(resp'.sid)) >= 1)]_vars

\* the first question of a start could not be generated and no session was stored
C22_Witness ==
    /\ resp.op = "start" /\ resp.status = "error" /\ resp.calls = 1
    /\ resp.sid \notin DOMAIN SESSIONS
====
